---- MODULE Spec2Model ----
(***************************************************************************)
(* A model of feincms3/renderer.py: the TemplatePluginRenderer registry,   *)
(* its dispatch render_plugin_in_context, and render_in_context, which     *)
(* renders a template against a borrowed django.template.Context.          *)
(*                                                                         *)
(* Python values are records tagged by "kind".  A call of one of the        *)
(* public operations is a sequence of steps (pc follows the source lines), *)
(* so that the order of the calls made to the collaborators (the strategy  *)
(* callables, the template engine, the context) is part of the state.      *)
(***************************************************************************)
EXTENDS Naturals, Sequences, FiniteSets, TLC

\* Bound of the model: the deepest scope stack the caller builds on its own
\* ambient context before handing it to a render (builtins layer included).
MaxDepth == 2

------------------------------------------------------------------------------
\* Python values

NoneV == [kind |-> "None"]
Str(s) == [kind |-> "str", s |-> s]
Lst(q) == [kind |-> "list", items |-> q]
Fn(f) == [kind |-> "function", fn |-> f]
Dict(d) == [kind |-> "dict", d |-> d]
\* An object exposing render(): a django Template, which knows its engine.
Tmpl(n, e) == [kind |-> "template", name |-> n, engine |-> e]
\* The "context" argument of register_template_renderer left out by the caller.
Omitted == [kind |-> "omitted"]

Return(v) == [kind |-> "return", value |-> v]
Raise(e, a) == [kind |-> "raise", exc |-> e, arg |-> a]
\* What template.render(context) produces: the template and what it can see.
Rendered(t, vis) == [kind |-> "rendered", name |-> t.name, vars |-> vis]

callable(v) == v.kind = "function"
HasRender(v) == v.kind = "template"
IsListOrTuple(v) == v.kind = "list"

------------------------------------------------------------------------------
\* The plugin instances and types of the application

PluginTypes == {"Snippet", "RichText"}
Plugins == {"p1", "p2"}
ClassOf == [p1 |-> "Snippet", p2 |-> "RichText"]
\* plugin._meta.label_lower
LabelLower == [Snippet |-> "app.snippet", RichText |-> "app.richtext"]
text == [p1 |-> "<p>hi</p>", p2 |-> "<b>yo</b>"]
TemplateNames == {"a.html", "missing.html"}
InitialTemplateName == [p \in Plugins |-> "a.html"]

\* What applications register
StringRenderers == {Fn("text_renderer"), Str("<hr>")}
TemplateSources ==
    { NoneV, Str("a.html"), Lst(<<"missing.html", "b.html">>),
      Tmpl("obj.html", "default"), Fn("template_name_resolver") }
ContextBuilders == {Fn("persons_context"), Dict("title" :> "static")}

\* The template engines: the process-wide default one and the one the page
\* template of the ambient context belongs to, with the templates each finds.
EngineTemplates == [default |-> {"a.html", "b.html"}, bound |-> {"a.html"}]
PageTemplate == Tmpl("page.html", "bound")

\* Scopes a caller pushes on its own context
CallerScopes == {"page" :> "home", "plugin" :> "outer"}
Builtins == ("True" :> "True") @@ ("False" :> "False") @@ ("None" :> "None")

------------------------------------------------------------------------------
\* dict: insertion ordered, one entry per key

DictKeys(d) == [i \in 1..Len(d) |-> d[i].key]
DictContains(d, k) == \E i \in 1..Len(d) : d[i].key = k
DictGetItem(d, k) == d[CHOOSE i \in 1..Len(d) : d[i].key = k].value
DictSetItemBlend(d, k, v) ==
    IF DictContains(d, k)
    THEN [i \in 1..Len(d) |->
            IF d[i].key = k THEN [key |-> k, value |-> <<d[i].value[1], v[2]>>] ELSE d[i]]
    ELSE Append(d, [key |-> k, value |-> v])
DictSetItemReinsert(d, k, v) ==
    Append(SelectSeq(d, LAMBDA e : e.key # k), [key |-> k, value |-> v])
DictSetItem(d, k, v) ==
    IF DictContains(d, k)
    THEN [i \in 1..Len(d) |-> IF d[i].key = k THEN [key |-> k, value |-> v] ELSE d[i]]
    ELSE Append(d, [key |-> k, value |-> v])

\* django.template.Context: a stack of dicts and the template bound to it
NewContext == [dicts |-> <<Builtins>>, template |-> NoneV]
Depth(c) == Len(c.dicts)
RECURSIVE Visible(_)
Visible(dicts) ==
    IF dicts = <<>> THEN <<>>
    ELSE dicts[Len(dicts)] @@ Visible(SubSeq(dicts, 1, Len(dicts) - 1))


------------------------------------------------------------------------------
\* State

VARIABLES
    renderers,        \* self._renderers: sequence of [key, value], insertion ordered
    template_name,    \* the template_name field of each plugin instance
    ambient,          \* the caller's Context object
    fresh,            \* the Context() object created inside a call, or NoneV
    pc,               \* position in the running call ("idle": the caller runs)
    op,               \* the public operation that is running
    plugin,           \* argument: the plugin instance
    context,          \* argument/local: "None", or a reference "ambient" / "fresh"
    template,         \* local of render_plugin_in_context and render_in_context
    local_context,    \* local of render_plugin_in_context and render_in_context
    pending,          \* outcome of template.render inside the with block
    result,           \* how the call ended: Return(v) or Raise(e, a)
    returned,         \* the list object plugins() handed to its caller
    log,              \* the calls made to collaborators during the running call
    branch,           \* which side of line 119 the running call took
    entry,            \* the ambient context as it was when the call began
    entryRenderers,   \* the registry as it was when the call began
    ricEntry,         \* render_in_context's arguments once its context exists
    lastReg,          \* per type, the arguments of its latest registration
    firstReg,         \* the types in the order of their first registration
    reregistered      \* some registration was for a type registered before

frame == <<pc, op, plugin, context, template, local_context, pending, result,
           returned, log, branch, entry, entryRenderers, ricEntry>>
history == <<lastReg, firstReg, reregistered>>
vars == <<renderers, template_name, ambient, fresh, frame, history>>

CtxOf(ref) == IF ref = "ambient" THEN ambient ELSE fresh

Event(e, target, args, out) == [ev |-> e, target |-> target, args |-> args, out |-> out]

Init ==
    /\ renderers = <<>>
    /\ template_name = InitialTemplateName
    /\ ambient = NewContext
    /\ fresh = NoneV
    /\ pc = "idle"
    /\ op = "none"
    /\ plugin = "none"
    /\ context = "None"
    /\ template = NoneV
    /\ local_context = NoneV
    /\ pending = NoneV
    /\ result = NoneV
    /\ returned = [alias |-> FALSE, items |-> <<>>]
    /\ log = <<>>
    /\ branch = "none"
    /\ entry = NoneV
    /\ entryRenderers = <<>>
    /\ ricEntry = NoneV
    /\ lastReg = [t \in PluginTypes |-> NoneV]
    /\ firstReg = <<>>
    /\ reregistered = FALSE

------------------------------------------------------------------------------
\* The caller, between calls

\* The page template pushes a scope on its context (with, for, include, ...)
CallerPush(scope) ==
    /\ pc = "idle"
    /\ Depth(ambient) < MaxDepth
    /\ ambient' = [ambient EXCEPT !.dicts = Append(@, scope)]
    /\ UNCHANGED <<renderers, template_name, fresh, frame, history>>

CallerPop ==
    /\ pc = "idle"
    /\ Depth(ambient) > 1
    /\ ambient' = [ambient EXCEPT !.dicts = SubSeq(@, 1, Len(@) - 1)]
    /\ UNCHANGED <<renderers, template_name, fresh, frame, history>>

\* The context is, or is no longer, the context of a page template being
\* rendered (django binds the template to the context for that time).
CallerBindTemplate ==
    /\ pc = "idle"
    /\ ambient' = [ambient EXCEPT !.template = IF @ = NoneV THEN PageTemplate ELSE NoneV]
    /\ UNCHANGED <<renderers, template_name, fresh, frame, history>>

\* An editor changes the template_name field of the snippet
Editable == {"p1"}
SetTemplateName(p, n) ==
    /\ pc = "idle"
    /\ p \in Editable
    /\ template_name[p] # n
    /\ template_name' = [template_name EXCEPT ![p] = n]
    /\ UNCHANGED <<renderers, ambient, fresh, frame, history>>

------------------------------------------------------------------------------
\* Registration

\* register_string_renderer stores (None, renderer)
StringStrategy(renderer) == <<NoneV, renderer>>

\* the default of the context parameter of register_template_renderer
ContextParam(given) == IF given = Omitted THEN Fn("default_context") ELSE given

\* register_template_renderer stores (template_name, context)
TemplateStrategy(tn, ctx) == <<tn, ctx>>

NoteRegistration(t, how, a, b) ==
    /\ lastReg' = [lastReg EXCEPT ![t] = [op |-> how, a |-> a, b |-> b]]
    /\ firstReg' = IF \E i \in 1..Len(firstReg) : firstReg[i] = t
                   THEN firstReg ELSE Append(firstReg, t)
    /\ reregistered' = (reregistered \/ \E i \in 1..Len(firstReg) : firstReg[i] = t)

register_string_renderer(t, renderer) ==
    /\ pc = "idle"
    /\ renderers' = DictSetItem(renderers, t, StringStrategy(renderer))
    /\ NoteRegistration(t, "string", renderer, NoneV)
    /\ UNCHANGED <<template_name, ambient, fresh, frame>>

register_template_renderer(t, tn, given) ==
    /\ pc = "idle"
    /\ renderers' = DictSetItem(renderers, t, TemplateStrategy(tn, ContextParam(given)))
    /\ NoteRegistration(t, "template", tn, given)
    /\ UNCHANGED <<template_name, ambient, fresh, frame>>

\* plugins(): list(self._renderers.keys()), a new list object
PluginsListAlias(d) == [alias |-> TRUE, items |-> DictKeys(d)]
PluginsList(d) == [alias |-> FALSE, items |-> DictKeys(d)]

plugins ==
    /\ pc = "idle"
    /\ pc' = "done"
    /\ op' = "plugins"
    /\ returned' = PluginsList(renderers)
    /\ entryRenderers' = renderers
    /\ entry' = ambient
    /\ UNCHANGED <<renderers, template_name, ambient, fresh, plugin, context, template,
                   local_context, pending, result, log, branch, ricEntry, history>>

\* The caller deletes the first element of the list it was handed.  Were the
\* list the registry's own key list, the registry would lose the entry too.
CallerModifiesReturned ==
    /\ pc = "done"
    /\ op = "plugins"
    /\ returned.items # <<>>
    /\ pc' = "caller_modified"
    /\ returned' = [returned EXCEPT !.items = Tail(@)]
    /\ renderers' = IF returned.alias THEN Tail(renderers) ELSE renderers
    /\ UNCHANGED <<template_name, ambient, fresh, op, plugin, context, template,
                   local_context, pending, result, log, branch, entry, entryRenderers,
                   ricEntry, history>>


------------------------------------------------------------------------------
\* The collaborators: strategy callables, template engine, context

Arity(f) == IF f \in {"default_context", "persons_context"} THEN 2 ELSE 1

\* default_context(plugin, context): {"plugin": plugin}
DefaultContextWithAmbient(p, c) == Dict(("plugin" :> p) @@ Visible(CtxOf(c).dicts))
default_context(p, c) == Dict("plugin" :> p)

\* The outcomes of calling callable f with the positional arguments args.  The
\* application's callables may raise; python raises TypeError when the number
\* of arguments is not the callable's.
CallOutcomesStale(f, args) ==
    IF Len(args) # Arity(f) THEN {Raise("TypeError", f)}
    ELSE CASE f = "default_context" -> {Return(default_context(args[1], args[2]))}
           [] f = "persons_context" ->
                {Return(Dict("persons" :> "team")), Raise("DoesNotExist", f)}
           [] f = "template_name_resolver" ->
                {Return(Str(InitialTemplateName[args[1]])), Raise("AttributeError", f)}
           [] f = "text_renderer" -> {Return(Str(text[args[1]]))}
CallOutcomes(f, args) ==
    IF Len(args) # Arity(f) THEN {Raise("TypeError", f)}
    ELSE CASE f = "default_context" -> {Return(default_context(args[1], args[2]))}
           [] f = "persons_context" ->
                {Return(Dict("persons" :> "team")), Raise("DoesNotExist", f)}
           [] f = "template_name_resolver" ->
                {Return(Str(template_name[args[1]])), Raise("AttributeError", f)}
           [] f = "text_renderer" -> {Return(Str(text[args[1]]))}

\* try: context.template.engine / except AttributeError: Engine.get_default()
EngineOfDefaultOnly(c) == "default"
EngineOf(c) == IF c.template = NoneV THEN "default" ELSE c.template.engine

\* engine.get_template(name)
get_template(e, t) ==
    IF t.kind = "str" /\ t.s \in EngineTemplates[e]
    THEN Return(Tmpl(t.s, e)) ELSE Raise("TemplateDoesNotExist", e)

\* engine.select_template(names): the first that exists
select_template(e, names) ==
    IF \E i \in 1..Len(names) : names[i] \in EngineTemplates[e]
    THEN LET i == CHOOSE i \in 1..Len(names) :
                    /\ names[i] \in EngineTemplates[e]
                    /\ \A j \in 1..(i - 1) : names[j] \notin EngineTemplates[e]
         IN Return(Tmpl(names[i], e))
    ELSE Raise("TemplateDoesNotExist", e)

\* lines 150-153: which engine operation resolves the template
ResolveByEngine(e, t) ==
    IF IsListOrTuple(t)
    THEN Event("select_template", e, t.items, select_template(e, t.items))
    ELSE Event("get_template", e, <<t>>, get_template(e, t))

\* context.push(local_context): a new ContextDict(local_context) on the stack;
\* dict(None) raises before the stack is touched.
CanPush(l) == l.kind = "dict"
ContextPushMerge(c, l) ==
    [c EXCEPT !.dicts = [@ EXCEPT ![Len(@)] = l.d @@ @]]
ContextPush(c, l) == [c EXCEPT !.dicts = Append(@, l.d)]

\* ContextDict.__exit__: context.pop(), whatever the with block did
ExitScopeOnReturnOnly(c, outcome) ==
    IF outcome.kind = "return" THEN [c EXCEPT !.dicts = SubSeq(@, 1, Len(@) - 1)] ELSE c
ExitScope(c, outcome) == [c EXCEPT !.dicts = SubSeq(@, 1, Len(@) - 1)]

\* template.render(context): a string made of what the template sees, or an error
TemplateRender(t, c) ==
    {Return(Rendered(t, Visible(c.dicts))), Raise("TemplateSyntaxError", t.name)}

SetCtx(ref, c) ==
    IF ref = "ambient"
    THEN ambient' = c /\ fresh' = fresh
    ELSE fresh' = c /\ ambient' = ambient

------------------------------------------------------------------------------
\* render_plugin_in_context(plugin, context=None)

CallRenderPluginInContext(p, c) ==
    /\ pc = "idle"
    /\ pc' = "rpic_113"
    /\ op' = "render_plugin_in_context"
    /\ plugin' = p
    /\ context' = c
    /\ entry' = ambient
    /\ entryRenderers' = renderers
    /\ UNCHANGED <<renderers, template_name, ambient, fresh, template, local_context,
                   pending, result, returned, log, branch, ricEntry, history>>

\* line 114: PluginNotRegistered("Plugin %s is not registered" % label_lower)
NotRegisteredKeyError(p) == Raise("KeyError", ClassOf[p])
NotRegistered(p) == Raise("PluginNotRegistered", LabelLower[ClassOf[p]])

\* lines 113-117
RPIC_Lookup ==
    /\ pc = "rpic_113"
    /\ IF ~DictContains(renderers, ClassOf[plugin])
       THEN /\ result' = NotRegistered(plugin)
            /\ pc' = "done"
            /\ UNCHANGED <<template, local_context>>
       ELSE /\ template' = DictGetItem(renderers, ClassOf[plugin])[1]
            /\ local_context' = DictGetItem(renderers, ClassOf[plugin])[2]
            /\ pc' = "rpic_119"
            /\ UNCHANGED result
    /\ UNCHANGED <<renderers, template_name, ambient, fresh, op, plugin, context,
                   pending, returned, log, branch, entry, entryRenderers, ricEntry,
                   history>>

\* line 119: template is None
IsStringRendererNotCallable(t) == ~callable(t)
IsStringRenderer(t) == t = NoneV

\* line 121: the arguments the string renderer is called with
StringRendererArgsWithContext(p, c) == <<p, c>>
StringRendererArgs(p, c) == <<p>>

\* lines 119-121
RPIC_StringRenderer ==
    /\ pc = "rpic_119"
    /\ IsStringRenderer(template)
    /\ branch' = "string"
    /\ pc' = "done"
    /\ IF callable(local_context)
       THEN \E out \in CallOutcomes(local_context.fn, StringRendererArgs(plugin, context)) :
                /\ log' = Append(log, Event("call", local_context.fn,
                                            StringRendererArgs(plugin, context), out))
                /\ result' = out
       ELSE /\ result' = Return(local_context)
            /\ UNCHANGED log
    /\ UNCHANGED <<renderers, template_name, ambient, fresh, op, plugin, context,
                   template, local_context, pending, returned, entry, entryRenderers,
                   ricEntry, history>>

\* lines 123-124
RPIC_DefaultContext ==
    /\ pc = "rpic_119"
    /\ ~IsStringRenderer(template)
    /\ branch' = "template"
    /\ pc' = "rpic_126"
    /\ IF context = "None"
       THEN /\ fresh' = NewContext
            /\ context' = "fresh"
            /\ log' = Append(log, Event("Context", "fresh", <<>>, NoneV))
       ELSE UNCHANGED <<fresh, context, log>>
    /\ UNCHANGED <<renderers, template_name, ambient, op, plugin, template,
                   local_context, pending, result, returned, entry, entryRenderers,
                   ricEntry, history>>

\* lines 126-127
RPIC_ResolveTemplate ==
    /\ pc = "rpic_126"
    /\ IF callable(template)
       THEN \E out \in CallOutcomes(template.fn, <<plugin>>) :
                /\ log' = Append(log, Event("call", template.fn, <<plugin>>, out))
                /\ IF out.kind = "return"
                   THEN template' = out.value /\ pc' = "rpic_128" /\ UNCHANGED result
                   ELSE result' = out /\ pc' = "done" /\ UNCHANGED template
       ELSE pc' = "rpic_128" /\ UNCHANGED <<log, template, result>>
    /\ UNCHANGED <<renderers, template_name, ambient, fresh, op, plugin, context,
                   local_context, pending, returned, branch, entry, entryRenderers,
                   ricEntry, history>>

\* lines 128-131: the local context, then the call of render_in_context
RPIC_ResolveLocalContext ==
    /\ pc = "rpic_128"
    /\ IF callable(local_context)
       THEN \E out \in CallOutcomes(local_context.fn, <<plugin, context>>) :
                /\ log' = Append(log, Event("call", local_context.fn,
                                            <<plugin, context>>, out))
                /\ IF out.kind = "return"
                   THEN local_context' = out.value /\ pc' = "ric_141" /\ UNCHANGED result
                   ELSE result' = out /\ pc' = "done" /\ UNCHANGED local_context
       ELSE pc' = "ric_141" /\ UNCHANGED <<log, local_context, result>>
    /\ UNCHANGED <<renderers, template_name, ambient, fresh, op, plugin, context,
                   template, pending, returned, branch, entry, entryRenderers,
                   ricEntry, history>>

------------------------------------------------------------------------------
\* render_in_context(context, template, local_context=None)

DirectTemplates ==
    { Str("a.html"), Str("b.html"), Str("missing.html"),
      Lst(<<"missing.html", "b.html">>), Lst(<<"a.html", "b.html">>),
      Tmpl("obj.html", "default") }
DirectLocals == {NoneV, Dict("plugin" :> "p1"), Dict("x" :> "1")}

CallRenderInContext(c, t, l) ==
    /\ pc = "idle"
    /\ pc' = "ric_141"
    /\ op' = "render_in_context"
    /\ context' = c
    /\ template' = t
    /\ local_context' = l
    /\ entry' = ambient
    /\ entryRenderers' = renderers
    /\ UNCHANGED <<renderers, template_name, ambient, fresh, plugin, pending, result,
                   returned, log, branch, ricEntry, history>>

\* lines 141-142
RIC_DefaultContext ==
    /\ pc = "ric_141"
    /\ pc' = "ric_144"
    /\ IF context = "None"
       THEN /\ fresh' = NewContext
            /\ context' = "fresh"
            /\ log' = Append(log, Event("Context", "fresh", <<>>, NoneV))
       ELSE UNCHANGED <<fresh, context, log>>
    /\ ricEntry' = [template |-> template, local_context |-> local_context,
                    ctx |-> IF context = "ambient" THEN ambient ELSE fresh']
    /\ UNCHANGED <<renderers, template_name, ambient, op, plugin, template,
                   local_context, pending, result, returned, branch, entry,
                   entryRenderers, history>>

\* lines 144-153
RIC_GetTemplate ==
    /\ pc = "ric_144"
    /\ IF HasRender(template)
       THEN pc' = "ric_155" /\ UNCHANGED <<log, template, result>>
       ELSE LET e == ResolveByEngine(EngineOf(CtxOf(context)), template) IN
            /\ log' = Append(log, e)
            /\ IF e.out.kind = "return"
               THEN template' = e.out.value /\ pc' = "ric_155" /\ UNCHANGED result
               ELSE result' = e.out /\ pc' = "done" /\ UNCHANGED template
    /\ UNCHANGED <<renderers, template_name, ambient, fresh, op, plugin, context,
                   local_context, pending, returned, branch, entry, entryRenderers,
                   ricEntry, history>>

\* line 155: with context.push(local_context)
RIC_Push ==
    /\ pc = "ric_155"
    /\ IF CanPush(local_context)
       THEN /\ SetCtx(context, ContextPush(CtxOf(context), local_context))
            /\ log' = Append(log, Event("push", context, <<>>, NoneV))
            /\ pc' = "ric_156"
            /\ UNCHANGED result
       ELSE /\ result' = Raise("TypeError", "push")
            /\ pc' = "done"
            /\ UNCHANGED <<ambient, fresh, log>>
    /\ UNCHANGED <<renderers, template_name, op, plugin, context, template,
                   local_context, pending, returned, branch, entry, entryRenderers,
                   ricEntry, history>>

\* line 156: template.render(context), inside the with block
RIC_Render ==
    /\ pc = "ric_156"
    /\ \E out \in TemplateRender(template, CtxOf(context)) :
            /\ pending' = out
            /\ log' = Append(log, Event("render", template.name, <<context>>, out))
    /\ pc' = "ric_exit"
    /\ UNCHANGED <<renderers, template_name, ambient, fresh, op, plugin, context,
                   template, local_context, result, returned, branch, entry,
                   entryRenderers, ricEntry, history>>

\* leaving the with block of lines 155-156, by return or by exception
RIC_Exit ==
    /\ pc = "ric_exit"
    /\ LET c == ExitScope(CtxOf(context), pending) IN
            /\ SetCtx(context, c)
            /\ log' = IF Depth(c) < Depth(CtxOf(context))
                      THEN Append(log, Event("pop", context, <<>>, NoneV)) ELSE log
    /\ result' = pending
    /\ pc' = "done"
    /\ UNCHANGED <<renderers, template_name, op, plugin, context, template,
                   local_context, pending, returned, branch, entry, entryRenderers,
                   ricEntry, history>>

\* The call is over: its frame and the context it created are gone.
Finish ==
    /\ pc \in {"done", "caller_modified"}
    /\ pc' = "idle"
    /\ op' = "none"
    /\ plugin' = "none"
    /\ context' = "None"
    /\ template' = NoneV
    /\ local_context' = NoneV
    /\ pending' = NoneV
    /\ result' = NoneV
    /\ returned' = [alias |-> FALSE, items |-> <<>>]
    /\ log' = <<>>
    /\ branch' = "none"
    /\ entry' = NoneV
    /\ entryRenderers' = <<>>
    /\ ricEntry' = NoneV
    /\ fresh' = NoneV
    /\ UNCHANGED <<renderers, template_name, ambient, history>>

------------------------------------------------------------------------------
\* Specifications

Caller ==
    \/ \E scope \in CallerScopes : CallerPush(scope)
    \/ CallerPop
    \/ CallerBindTemplate

Bridge ==
    \/ RIC_DefaultContext
    \/ RIC_GetTemplate
    \/ RIC_Push
    \/ RIC_Render
    \/ RIC_Exit
    \/ Finish

\* The registry and its dispatch
Next ==
    \/ Caller
    \/ \E p \in Plugins, n \in TemplateNames : SetTemplateName(p, n)
    \/ \E t \in PluginTypes, r \in StringRenderers : register_string_renderer(t, r)
    \/ \E t \in PluginTypes, tn \in TemplateSources,
          given \in ContextBuilders \cup {Omitted} : register_template_renderer(t, tn, given)
    \/ plugins
    \/ CallerModifiesReturned
    \/ \E p \in Plugins, c \in {"None", "ambient"} : CallRenderPluginInContext(p, c)
    \/ RPIC_Lookup
    \/ RPIC_StringRenderer
    \/ RPIC_DefaultContext
    \/ RPIC_ResolveTemplate
    \/ RPIC_ResolveLocalContext
    \/ Bridge

Spec == Init /\ [][Next]_vars

\* render_in_context called on its own, with every kind of argument
NextBridge ==
    \/ Caller
    \/ \E c \in {"None", "ambient"}, t \in DirectTemplates, l \in DirectLocals :
            CallRenderInContext(c, t, l)
    \/ Bridge

SpecBridge == Init /\ [][NextBridge]_vars


------------------------------------------------------------------------------
\* Vocabulary of the properties

RPIC == op = "render_plugin_in_context" /\ pc # "idle"
Registered == DictContains(renderers, ClassOf[plugin])
Latest == lastReg[ClassOf[plugin]]
EventsOf(kinds) == SelectSeq(log, LAMBDA e : e.ev \in kinds)
CallsOf(f) == SelectSeq(log, LAMBDA e : e.ev = "call" /\ e.target = f)
Top(c) == c.dicts[Len(c.dicts)]
InWithBlock == pc \in {"ric_156", "ric_exit"}

\* The (template, local_context) pair a registration asks to be stored
Expected(r) ==
    IF r.op = "string" THEN <<NoneV, r.a>>
    ELSE <<r.a, IF r.b = Omitted THEN Fn("default_context") ELSE r.b>>


------------------------------------------------------------------------------
\* Properties

\* C1: when render_plugin_in_context, called with the caller's own context on
\* a plugin whose type was registered with a template strategy, has ended
\* (by returning or by raising, at whatever step), the caller's context has
\* the scope depth and the visible variables it had when the call began.
C1_AmbientContextRestored ==
    (RPIC /\ pc = "done" /\ context = "ambient" /\ Registered /\ Latest.op = "template")
        => /\ Depth(ambient) = Depth(entry)
           /\ Visible(ambient.dicts) = Visible(entry.dicts)
           /\ ambient.dicts = entry.dicts

\* A render on the caller's two-scope context ended because the template's
\* render raised, after the overlay had been pushed.
C1_Witness ==
    /\ RPIC /\ pc = "done" /\ context = "ambient" /\ Registered
    /\ Latest.op = "template"
    /\ result.kind = "raise" /\ result.exc = "TemplateSyntaxError"
    /\ Len(EventsOf({"push"})) = 1
    /\ Depth(ambient) = 2

\* C2: a render_plugin_in_context call on a plugin whose type is no key of the
\* registry never gets past the lookup: no callable, engine or context
\* operation is made, no context is created, the caller's context and the
\* registry are as they were, and the call ends raising PluginNotRegistered
\* with the label of the plugin's type.
C2_UnregisteredRaises ==
    (RPIC /\ ~Registered)
        => /\ pc \in {"rpic_113", "done"}
           /\ log = <<>>
           /\ fresh = NoneV
           /\ branch = "none"
           /\ ricEntry = NoneV
           /\ ambient = entry
           /\ renderers = entryRenderers
           /\ pc = "done" =>
                /\ result.kind = "raise"
                /\ result.exc = "PluginNotRegistered"
                /\ result.arg = LabelLower[ClassOf[plugin]]

\* The call ended for an unregistered type while another type is registered.
C2_Witness ==
    /\ RPIC /\ pc = "done" /\ ~Registered
    /\ renderers # <<>>
    /\ result.kind = "raise"

\* C3: the registry holds one entry per type ever registered and none for the
\* others; the entry is the complete pair of the type's latest registration;
\* a render loads that pair and calls no callable outside it.
C3_LastRegistrationWins ==
    /\ \A t \in PluginTypes :
            /\ Cardinality({i \in 1..Len(renderers) : renderers[i].key = t})
                    = (IF lastReg[t] = NoneV THEN 0 ELSE 1)
            /\ lastReg[t] # NoneV => DictGetItem(renderers, t) = Expected(lastReg[t])
    /\ \A i \in 1..Len(renderers) : renderers[i].key \in PluginTypes
    /\ (RPIC /\ pc = "rpic_119") => <<template, local_context>> = Expected(Latest)
    /\ (RPIC /\ Registered) =>
            \A i \in 1..Len(log) :
                log[i].ev = "call" =>
                    \E j \in 1..2 : Expected(Latest)[j] = Fn(log[i].target)

\* A render of the only registered type, which was registered more than once,
\* has loaded its strategy.
C3_Witness ==
    /\ RPIC /\ pc = "rpic_119"
    /\ reregistered
    /\ Len(renderers) = 1
    /\ Latest.op = "template"
    /\ Latest.b # Omitted

\* C4: a render of a plugin whose type has a string strategy with a callable
\* makes one call, of that callable with the plugin alone, and returns what
\* the callable returned; it creates no context, leaves the caller's context
\* alone and never enters render_in_context.
C4_StringStrategyPlain ==
    (RPIC /\ Registered /\ Latest.op = "string" /\ callable(Latest.a))
        => /\ fresh = NoneV
           /\ ambient = entry
           /\ ricEntry = NoneV
           /\ EventsOf({"Context", "push", "pop", "render", "get_template",
                        "select_template"}) = <<>>
           /\ pc \in {"rpic_113", "rpic_119", "done"}
           /\ pc # "done" => log = <<>>
           /\ pc = "done" =>
                /\ Len(log) = 1
                /\ log[1].ev = "call"
                /\ log[1].target = Latest.a.fn
                /\ log[1].args = <<plugin>>
                /\ result = log[1].out
                /\ result = Return(Str(text[plugin]))

\* A string strategy was rendered without a context and returned.
C4_Witness ==
    /\ RPIC /\ pc = "done" /\ Registered
    /\ Latest.op = "string" /\ callable(Latest.a)
    /\ context = "None"
    /\ result.kind = "return"


\* C5: registration stores a callable template source and a callable context
\* builder as they are, calling nothing.  A render calls each at most once:
\* the source with the plugin of that call, the builder with that plugin and
\* the context; a call that gets past line 127 has called the source once,
\* one that enters render_in_context has called the builder once.  What the
\* source returns, and so the template render_in_context is given, is the
\* value the plugin's field has during that render.
C5_ResolvedAtRenderTime ==
    /\ pc = "idle" => log = <<>>
    /\ \A t \in PluginTypes :
            (lastReg[t] # NoneV /\ lastReg[t].op = "template") =>
                /\ callable(lastReg[t].a) => DictGetItem(renderers, t)[1] = lastReg[t].a
                /\ callable(lastReg[t].b) => DictGetItem(renderers, t)[2] = lastReg[t].b
    /\ (RPIC /\ Registered /\ Latest.op = "template" /\ callable(Latest.a)) =>
            LET rc == CallsOf(Latest.a.fn) IN
            /\ Len(rc) <= 1
            /\ pc \in {"rpic_113", "rpic_119", "rpic_126"} => rc = <<>>
            /\ pc \notin {"rpic_113", "rpic_119", "rpic_126"} =>
                    /\ Len(rc) = 1
                    /\ rc[1].args = <<plugin>>
                    /\ rc[1].out.kind = "return" =>
                            rc[1].out.value = Str(template_name[plugin])
                    /\ pc = "rpic_128" => template = Str(template_name[plugin])
                    /\ ricEntry # NoneV => ricEntry.template = Str(template_name[plugin])
    /\ (RPIC /\ Registered /\ Latest.op = "template" /\ Latest.a # NoneV
             /\ callable(Expected(Latest)[2])) =>
            LET bc == CallsOf(Expected(Latest)[2].fn) IN
            /\ Len(bc) <= 1
            /\ pc \in {"rpic_113", "rpic_119", "rpic_126", "rpic_128"} => bc = <<>>
            /\ ricEntry # NoneV =>
                    /\ Len(bc) = 1
                    /\ bc[1].args = <<plugin, context>>
                    /\ bc[1].out = Return(ricEntry.local_context)

\* The snippet's field was changed after construction and the render resolved
\* the template from the new value.
C5_Witness ==
    /\ RPIC /\ pc = "done" /\ Registered
    /\ Latest.op = "template" /\ callable(Latest.a)
    /\ template_name[plugin] # InitialTemplateName[plugin]
    /\ ricEntry # NoneV
    /\ ricEntry.template = Str("missing.html")
    /\ result.kind = "raise" /\ result.exc = "TemplateDoesNotExist"

\* C6: for a type registered with register_template_renderer without a context
\* argument, the scope on top of the context while the template renders holds
\* the one variable "plugin", bound to the instance being rendered.
C6_DefaultContextOverlay ==
    (RPIC /\ Registered /\ Latest.op = "template" /\ Latest.b = Omitted /\ InWithBlock)
        => /\ DOMAIN Top(CtxOf(context)) = {"plugin"}
           /\ Top(CtxOf(context))["plugin"] = plugin
           /\ ricEntry.local_context = Dict("plugin" :> plugin)

\* The default overlay is on top of a caller's context that has a variable of
\* the same name.
C6_Witness ==
    /\ RPIC /\ Registered /\ Latest.op = "template" /\ Latest.b = Omitted
    /\ pc = "ric_156"
    /\ context = "ambient"
    /\ Depth(entry) = 2
    /\ "plugin" \in DOMAIN Visible(entry.dicts)

\* C7: plugins() returns the registered types, each once, in the order of their
\* first registration; plugins() and render_plugin_in_context leave the
\* registry as it was; what the caller does to the returned list does not
\* reach the registry.
C7_PluginsInRegistrationOrder ==
    /\ (op = "plugins" /\ pc = "done") =>
            /\ returned.items = firstReg
            /\ \A i, j \in 1..Len(returned.items) :
                    returned.items[i] = returned.items[j] => i = j
            /\ {returned.items[i] : i \in 1..Len(returned.items)}
                    = {t \in PluginTypes : lastReg[t] # NoneV}
    /\ (op \in {"plugins", "render_plugin_in_context"} /\ pc # "idle") =>
            renderers = entryRenderers
    /\ pc = "caller_modified" =>
            /\ returned.items = Tail(firstReg)
            /\ DictKeys(renderers) = firstReg

\* plugins() listed two types after a re-registration, and the caller changed
\* the list.
C7_Witness ==
    /\ op = "plugins" /\ pc = "caller_modified"
    /\ Len(firstReg) = 2
    /\ reregistered

\* C9 as stated: a type last registered with register_template_renderer is
\* rendered on the template path whatever template source was given, a type
\* last registered with register_string_renderer on the string path.
TemplatePathTaken ==
    /\ branch = "template"
    /\ callable(Expected(Latest)[2]) =>
            \A i \in 1..Len(log) :
                (log[i].ev = "call" /\ log[i].target = Expected(Latest)[2].fn)
                    => log[i].args = <<plugin, context>>
    /\ result.kind = "return" => (ricEntry # NoneV /\ result.value.kind = "rendered")
StringPathTaken ==
    /\ branch = "string"
    /\ ricEntry = NoneV
    /\ fresh = NoneV
C9_Original ==
    (RPIC /\ pc = "done" /\ Registered) =>
        /\ Latest.op = "template" => TemplatePathTaken
        /\ Latest.op = "string" => StringPathTaken

\* C9: a type last registered with register_template_renderer with a template
\* source other than None is rendered on the template path (source resolved,
\* a callable builder called with the plugin and the context, the result made
\* by render_in_context); one registered with None as source, like one last
\* registered with register_string_renderer, on the string path.
C9_DispatchByStoredTemplate ==
    (RPIC /\ pc = "done" /\ Registered) =>
        /\ (Latest.op = "template" /\ Latest.a # NoneV) => TemplatePathTaken
        /\ (Latest.op = "template" /\ Latest.a = NoneV) => StringPathTaken
        /\ Latest.op = "string" => StringPathTaken

\* A type registered with a template name and a callable builder was rendered
\* through render_in_context.
C9_Witness ==
    /\ RPIC /\ pc = "done" /\ Registered
    /\ Latest.op = "template" /\ Latest.a = Str("a.html")
    /\ Latest.b = Fn("persons_context")
    /\ result.kind = "return"
    /\ branch = "template"


\* The engine render_in_context has to ask: the one of the template bound to
\* the context it was given, the default one when none is bound.
BoundEngine == IF ricEntry.ctx.template = NoneV THEN "default" ELSE "bound"
EngineCalls == EventsOf({"get_template", "select_template"})
IndexOf(kind) == CHOOSE i \in 1..Len(log) : log[i].ev = kind

\* C8: in render_in_context a template argument with a render operation is
\* used as it is, with no engine call; any other is resolved by one engine
\* call made before anything else, select_template with the names for a list,
\* get_template with the value otherwise, on the engine bound to the context
\* or else the default engine; when that call raises, the call ends with that
\* very exception, nothing pushed and nothing rendered.
C8_TemplateResolution ==
    ricEntry # NoneV =>
        LET t0 == ricEntry.template IN
        /\ pc = "ric_144" => (EngineCalls = <<>> /\ template = t0)
        /\ HasRender(t0) =>
                /\ EngineCalls = <<>>
                /\ template = t0
        /\ (~HasRender(t0) /\ pc # "ric_144") =>
                /\ Len(EngineCalls) = 1
                /\ EngineCalls[1].target = BoundEngine
                /\ IF IsListOrTuple(t0)
                   THEN /\ EngineCalls[1].ev = "select_template"
                        /\ EngineCalls[1].args = t0.items
                   ELSE /\ EngineCalls[1].ev = "get_template"
                        /\ EngineCalls[1].args = <<t0>>
                /\ EngineCalls[1].out.kind = "return" =>
                        /\ template = EngineCalls[1].out.value
                        /\ template.engine = BoundEngine
                        /\ template.name \in EngineTemplates[BoundEngine]
                        /\ IF IsListOrTuple(t0)
                           THEN \E i \in 1..Len(t0.items) :
                                    /\ t0.items[i] = template.name
                                    /\ \A j \in 1..(i - 1) :
                                            t0.items[j] \notin EngineTemplates[BoundEngine]
                           ELSE template.name = t0.s
                /\ EngineCalls[1].out.kind = "raise" =>
                        /\ pc = "done"
                        /\ result = EngineCalls[1].out
                        /\ result.exc = "TemplateDoesNotExist"
                        /\ EventsOf({"push", "pop", "render"}) = <<>>
                        /\ CtxOf(context) = ricEntry.ctx
        /\ EventsOf({"push"}) # <<>> =>
                /\ HasRender(template)
                /\ ~HasRender(t0) =>
                        \E i \in 1..Len(log) :
                            /\ log[i].ev \in {"get_template", "select_template"}
                            /\ i < IndexOf("push")

\* A list of names was looked up on the engine bound to the caller's context,
\* which has none of them, and the call ended with the engine's exception.
C8_Witness ==
    /\ op = "render_in_context" /\ pc = "done"
    /\ ricEntry # NoneV
    /\ IsListOrTuple(ricEntry.template)
    /\ BoundEngine = "bound"
    /\ result.kind = "raise" /\ result.exc = "TemplateDoesNotExist"

\* C10: a render_in_context call pushes at most one overlay, and only once the
\* template is resolved; while the template renders the context is one scope
\* deeper than at entry and the overlay's variables hide the context's own of
\* the same name; the call pops what it pushed, whether the render returned
\* or raised, and ends with the context as deep as at entry.
C10_PushMatchedByPop ==
    ricEntry # NoneV =>
        LET c == CtxOf(context)
            c0 == ricEntry.ctx
            pushes == Len(EventsOf({"push"}))
            pops == Len(EventsOf({"pop"}))
            seen == Visible(c.dicts)
            before == Visible(c0.dicts)
        IN
        /\ pushes <= 1
        /\ pops <= pushes
        /\ pushes = 1 => (HasRender(template) /\ pc \in {"ric_156", "ric_exit", "done"})
        /\ pc \in {"ric_144", "ric_155"} => (pushes = 0 /\ c = c0)
        /\ InWithBlock =>
                /\ pushes = 1 /\ pops = 0
                /\ Depth(c) = Depth(c0) + 1
                /\ SubSeq(c.dicts, 1, Depth(c0)) = c0.dicts
                /\ DOMAIN seen = DOMAIN before \cup DOMAIN local_context.d
                /\ \A v \in DOMAIN local_context.d : seen[v] = local_context.d[v]
                /\ \A v \in DOMAIN before \ DOMAIN local_context.d : seen[v] = before[v]
        /\ (pc = "ric_exit" /\ pending.kind = "return") =>
                pending.value.vars = local_context.d @@ before
        /\ pc = "done" =>
                /\ pops = pushes
                /\ Depth(c) = Depth(c0)
                /\ c = c0
                /\ EventsOf({"render"}) # <<>> =>
                        (pushes = 1 /\ IndexOf("push") < IndexOf("render")
                                    /\ IndexOf("render") < IndexOf("pop"))

\* The template's render raised under an overlay that hid a variable of the
\* caller's context, and the overlay was popped.
C10_Witness ==
    /\ op = "render_in_context" /\ pc = "done"
    /\ ricEntry # NoneV
    /\ context = "ambient"
    /\ Depth(ambient) = 2
    /\ "plugin" \in DOMAIN Visible(ambient.dicts)
    /\ ricEntry.local_context = Dict("plugin" :> "p1")
    /\ result.kind = "raise" /\ result.exc = "TemplateSyntaxError"
    /\ Len(EventsOf({"pop"})) = 1

====
